---- MODULE Spec2Model ----
(***************************************************************************)
(* A model of gaspy_regress/fingerprinters.py: the construction of a       *)
(* Fingerprinter (composition cache, elements in scope, Mendeleev data,    *)
(* median adsorption energies, dummy fingerprint, maximum number of        *)
(* species) and the fingerprint_doc / fingerprint_docs methods of the      *)
(* Inner, Outer and Stacked fingerprinters.                                *)
(*                                                                         *)
(* Python strings that the code parses are sequences of tokens: an element *)
(* symbol is one token, and so is each of the delimiters '-' and ':'.      *)
(* Floating point numbers are exact rationals <<numerator, denominator>>   *)
(* in lowest terms, and <<0, 0>> is NaN.  Material ids are never parsed    *)
(* and stay opaque strings.                                                *)
(***************************************************************************)
EXTENDS Integers, Sequences, FiniteSets, TLC

VARIABLES
    cache_file,   \* what /home/GASpy/GASpy_regressions/cache/mp_comp_data.pkl holds
    ctor,         \* the running Fingerprinter.__init__ (its locals), or NoCtor
    mp_queries,   \* the material ids the running construction asked MPRester for
    fp,           \* the fingerprinter objects constructed so far, by slot
    hashorder,    \* the interpreter's iteration order of a set of element strings
    call          \* the fingerprinting call that has just returned, or NoCall

vars == <<cache_file, ctor, mp_queries, fp, hashorder, call>>

----------------------------------------------------------------------------
\* Bounds of the model.

\* Longest adsorption record list get_adsorption_docs returns.
MaxAdsDocs == 2
\* Longest catalog record list get_catalog_docs returns.
MaxCatalogDocs == 2
\* Longest 'coordination' string, in tokens.
MaxCoordTokens == 3
\* Longest entry of 'neighborcoord', in tokens.
MaxNbrTokens == 4
\* Longest 'neighborcoord' list.
MaxNbrEntries == 1
\* Longest record list handed to fingerprint_docs.
MaxDocs == 2
\* Longest record list of either collection when two fingerprinters are
\* constructed to be stacked.
MaxStackedRecords == 1
\* Most atoms in either shell of a record handed to a stacked fingerprinter.
MaxStackedAtoms == 1
\* Most calls of fingerprint_doc whose results a caller keeps before it calls
\* again.
MaxEarlierCalls == 2

----------------------------------------------------------------------------
\* The data the external collaborators hold.

Cu == <<"Cu">>
Al == <<"Al">>
Dash == "-"
Colon == ":"
ElementTokens == {"Cu", "Al"}
Tokens == ElementTokens \cup {Dash, Colon}

\* Material ids known to the Materials Project, and what
\* entry.as_dict()['composition'].keys() lists for each.
MPIDS == {"mp-30", "mp-134", "mp-985806"}
MPComposition(mpid) ==
    CASE mpid = "mp-30" -> <<Cu>>
      [] mpid = "mp-134" -> <<Al>>
      [] mpid = "mp-985806" -> <<Cu, Al>>

\* The values doc['energy'] of an adsorption record takes: -0.5 and -0.3 eV.
Energies == {<<-1, 2>>, <<-3, 10>>}

\* getattr(mendeleev, element): atomic_number and electronegativity('pauling').
Mendeleev(element) ==
    CASE element = Cu -> [atomic_number |-> 29, electronegativity |-> <<19, 10>>]
      [] element = Al -> [atomic_number |-> 13, electronegativity |-> <<161, 100>>]

----------------------------------------------------------------------------
\* Floating point numbers.

NaN == <<0, 0>>
IsNaN(x) == x[2] = 0

Abs(n) == IF n < 0 THEN -n ELSE n

RECURSIVE Gcd(_, _)
Gcd(a, b) == IF b = 0 THEN a ELSE Gcd(b, a % b)

\* The float n / d, d > 0.
Float(n, d) ==
    LET g == Gcd(Abs(n), d)
    IN  <<n \div g, d \div g>>

\* float(n) of a Python int.
FloatOfInt(n) == <<n, 1>>

FAdd(a, b) ==
    IF IsNaN(a) \/ IsNaN(b) THEN NaN
    ELSE Float(a[1] * b[2] + b[1] * a[2], a[2] * b[2])

FDiv(a, n) ==
    IF IsNaN(a) \/ n = 0 THEN NaN ELSE Float(a[1], a[2] * n)

\* Python's a < b and a == b on floats: both are False when either is NaN.
FLess(a, b) == ~IsNaN(a) /\ ~IsNaN(b) /\ a[1] * b[2] < b[1] * a[2]
FEq(a, b) == ~IsNaN(a) /\ ~IsNaN(b) /\ a = b
FLeq(a, b) == FLess(a, b) \/ FEq(a, b)

RECURSIVE FSum(_)
FSum(xs) == IF xs = <<>> THEN FloatOfInt(0) ELSE FAdd(xs[1], FSum(Tail(xs)))

\* numpy.average of a list of floats; the mean of an empty list is NaN.
NpAverage(xs) == FDiv(FSum(xs), Len(xs))

\* The ascending arrangement of a list of floats none of which is NaN.
RECURSIVE FInsert(_, _)
FInsert(x, xs) ==
    IF xs = <<>> THEN <<x>>
    ELSE IF FLess(x, xs[1]) THEN <<x>> \o xs
    ELSE <<xs[1]>> \o FInsert(x, Tail(xs))

RECURSIVE FSort(_)
FSort(xs) == IF xs = <<>> THEN <<>> ELSE FInsert(xs[1], FSort(Tail(xs)))

\* numpy.median of a list of floats: NaN for an empty list, the middle value of
\* the sorted list for an odd length, the mean of the two middle values otherwise.
NpMedian(xs) ==
    LET s == FSort(xs)
        n == Len(xs)
    IN  IF n = 0 THEN NaN
        ELSE IF n % 2 = 1 THEN s[(n + 1) \div 2]
        ELSE FDiv(FAdd(s[n \div 2], s[n \div 2 + 1]), 2)

----------------------------------------------------------------------------
\* Python strings and lists.

\* All strings of at most n tokens.
Strings(n) == UNION {[1..k -> Tokens] : k \in 0..n}

\* All lists of at most n members of S.
Lists(S, n) == UNION {[1..k -> S] : k \in 0..n}

Range(xs) == {xs[i] : i \in DOMAIN xs}

\* list.count(x)
Count(xs, x) == Cardinality({i \in DOMAIN xs : xs[i] = x})

\* The index of the first sep in s, or 0.
FirstSep(s, sep) ==
    IF \E i \in DOMAIN s : s[i] = sep
    THEN CHOOSE i \in DOMAIN s : s[i] = sep /\ \A j \in 1..(i - 1) : s[j] # sep
    ELSE 0

\* str.split(sep): the pieces between the separators; ''.split(sep) is [''].
RECURSIVE Split(_, _)
Split(s, sep) ==
    LET i == FirstSep(s, sep)
    IN  IF i = 0 THEN <<s>>
        ELSE <<SubSeq(s, 1, i - 1)>> \o Split(SubSeq(s, i + 1, Len(s)), sep)

----------------------------------------------------------------------------
\* Records of the two collections, and the persisted cache.

\* An adsorption record: the keys of a document of get_adsorption_docs that
\* the construction reads.
AdsorptionDocs == [mpid : MPIDS, energy : Energies]
\* A catalog record: the key of a document of get_catalog_docs that the
\* construction reads.
CatalogDocs == [mpid : MPIDS]

\* The persisted cache: state "absent" (no file), "pickled" (data is the
\* dictionary the file holds) or "truncated" (the file was opened with 'wb' and
\* pickle.dump has not completed: it holds no complete pickle).
EmptyDict == <<>>
NoFile == [state |-> "absent", data |-> EmptyDict]
Truncated == [state |-> "truncated", data |-> EmptyDict]
Pickled(compositions_by_mpid) == [state |-> "pickled", data |-> compositions_by_mpid]

NoCtor == [pc |-> "idle"]
NoFp == [cls |-> "none"]
NoCall == [fn |-> "none"]

\* The function m, extended or overridden at key k.
Put(m, k, v) == [x \in DOMAIN m \cup {k} |-> IF x = k THEN v ELSE m[x]]

\* The members of set S in the order the interpreter iterates a set of them.
SetOrder(S, order) == SelectSeq(order, LAMBDA x : x \in S)

\* The orders in which the interpreter may iterate the set S.
Orders(S) ==
    {o \in [1..Cardinality(S) -> S] : \A i, j \in DOMAIN o : i # j => o[i] # o[j]}

----------------------------------------------------------------------------
\* Fingerprinter.__init__ and the methods it calls.

\* pickle.load of the cache file: the dictionary, {} when the file is absent.
\* A file that holds no complete pickle raises (not FileNotFoundError).
LoadRaises(file) == file.state = "truncated"
LoadedCache(file) == IF file.state = "absent" THEN EmptyDict ELSE file.data

RequiredMpids(adsorption_docs, catalog_docs) ==
    {adsorption_docs[i].mpid : i \in DOMAIN adsorption_docs}
        \cup {catalog_docs[i].mpid : i \in DOMAIN catalog_docs}

\* A slip: the loaded cache is ignored and every required id counts as unknown.
UnknownMpidsIgnoringCache(known_mpids, adsorption_docs, catalog_docs) ==
    RequiredMpids(adsorption_docs, catalog_docs)

UnknownMpids(known_mpids, adsorption_docs, catalog_docs) ==
    RequiredMpids(adsorption_docs, catalog_docs) \ known_mpids

\* A slip: only the first element of each composition is taken into scope.
ElementsOfFirstSpecies(compositions_by_mpid) ==
    {compositions_by_mpid[mpid][1] : mpid \in DOMAIN compositions_by_mpid}

\* _get_elements_in_scope
GetElementsInScope(compositions_by_mpid) ==
    UNION {Range(compositions_by_mpid[mpid]) : mpid \in DOMAIN compositions_by_mpid}

\* _get_mendeleev_data
GetMendeleevData(elements) == [element \in elements |-> Mendeleev(element)]

\* The energies of the adsorption records on the monometallic of element.
RECURSIVE MonometallicEnergies(_, _, _)
MonometallicEnergies(element, adsorption_docs, compositions_by_mpid) ==
    IF adsorption_docs = <<>> THEN <<>>
    ELSE LET doc == adsorption_docs[1]
             composition == compositions_by_mpid[doc.mpid]
             rest == MonometallicEnergies(element, Tail(adsorption_docs),
                                          compositions_by_mpid)
         IN  IF Len(composition) = 1 /\ composition[1] = element
             THEN <<doc.energy>> \o rest
             ELSE rest

AllEnergies(adsorption_docs) ==
    [i \in DOMAIN adsorption_docs |-> adsorption_docs[i].energy]

\* A slip: no fallback to the median of all energies.
MedianWithoutFallback(element, adsorption_docs, compositions_by_mpid) ==
    NpMedian(MonometallicEnergies(element, adsorption_docs, compositions_by_mpid))

\* The median adsorption energy of one element.
MedianAdsorptionEnergy(element, adsorption_docs, compositions_by_mpid) ==
    LET median == NpMedian(MonometallicEnergies(element, adsorption_docs,
                                                compositions_by_mpid))
    IN  IF IsNaN(median) THEN NpMedian(AllEnergies(adsorption_docs)) ELSE median

\* _calculate_median_adsorption_energies
CalculateMedianAdsorptionEnergies(elements, adsorption_docs, compositions_by_mpid) ==
    [element \in elements |->
        MedianAdsorptionEnergy(element, adsorption_docs, compositions_by_mpid)]

\* _calculate_dummy_fp, after its prerequisite calculations
CalculateDummyFp(median_adsorption_energies, mendeleev_data, order) ==
    LET elements == SetOrder(DOMAIN median_adsorption_energies, order)
        avg_median_energy ==
            NpAverage([i \in DOMAIN elements |-> median_adsorption_energies[elements[i]]])
        avg_atomic_num ==
            NpAverage([i \in DOMAIN elements |->
                          FloatOfInt(mendeleev_data[elements[i]].atomic_number)])
        avg_electroneg ==
            NpAverage([i \in DOMAIN elements |->
                          mendeleev_data[elements[i]].electronegativity])
        dummy_count == 0
    IN  <<avg_median_energy, avg_atomic_num, avg_electroneg, FloatOfInt(dummy_count)>>

SetMax(S) == CHOOSE x \in S : \A y \in S : y <= x

\* _get_max_num_species; max() of an empty list raises.
MaxNumSpeciesRaises(catalog_docs) == catalog_docs = <<>>
GetMaxNumSpecies(catalog_docs, compositions_by_mpid) ==
    LET mpids == {catalog_docs[i].mpid : i \in DOMAIN catalog_docs}
    IN  SetMax({Len(compositions_by_mpid[mpid]) : mpid \in mpids})

\* The object __init__ leaves behind when it returns.
Constructed(cls, adsorption_docs, catalog_docs, compositions_by_mpid, order) ==
    LET elements == GetElementsInScope(compositions_by_mpid)
        mendeleev_data == GetMendeleevData(elements)
        median_adsorption_energies ==
            CalculateMedianAdsorptionEnergies(elements, adsorption_docs,
                                              compositions_by_mpid)
    IN  [cls |-> cls,
         compositions_by_mpid |-> compositions_by_mpid,
         elements |-> elements,
         mendeleev_data |-> mendeleev_data,
         median_adsorption_energies |-> median_adsorption_energies,
         dummy_fp |-> CalculateDummyFp(median_adsorption_energies, mendeleev_data, order),
         max_num_species |-> GetMaxNumSpecies(catalog_docs, compositions_by_mpid)]

----------------------------------------------------------------------------
\* fingerprint_doc of the Inner and Outer fingerprinters.

\* What a call gives back: the returned value, or the exception it raised.
Returned(value) == [error |-> "", value |-> value]
Raised(error) == [error |-> error, value |-> <<>>]

\* Python's a < b on two 4-tuples of numbers: decided at the first component
\* that differs (that is not ==).  The numbers of a tuple, ints included, are
\* held as floats, which compare as the ints do.
TupleLess(a, b) ==
    LET differ == {i \in 1..4 : ~FEq(a[i], b[i])}
    IN  differ # {} /\ LET i == CHOOSE k \in differ : \A j \in differ : k <= j
                       IN  FLess(a[i], b[i])

\* The sorted list with one more tuple inserted, behind the tuples it is not
\* less than.
RECURSIVE InsertTuple(_, _)
InsertTuple(t, sorted) ==
    IF sorted = <<>> THEN <<t>>
    ELSE IF TupleLess(t, sorted[Len(sorted)])
         THEN InsertTuple(t, SubSeq(sorted, 1, Len(sorted) - 1))
                  \o <<sorted[Len(sorted)]>>
         ELSE sorted \o <<t>>

\* A slip: the tuples are left in the order of the loop over the set.
Unsorted(fingerprint) == fingerprint

\* sorted(fingerprint)
RECURSIVE Sorted(_)
Sorted(fingerprint) ==
    IF fingerprint = <<>> THEN <<>>
    ELSE InsertTuple(fingerprint[Len(fingerprint)],
                     Sorted(SubSeq(fingerprint, 1, Len(fingerprint) - 1)))

\* The 4-tuple of one element of the shell.
ElementTuple(self, element, atoms) ==
    <<self.median_adsorption_energies[element],
      FloatOfInt(self.mendeleev_data[element].atomic_number),
      self.mendeleev_data[element].electronegativity,
      FloatOfInt(Count(atoms, element))>>

\* The loop over set(atoms): one tuple per distinct element, in the set's order.
ElementTuples(self, atoms, order) ==
    LET elements == SetOrder(Range(atoms), order)
    IN  [i \in DOMAIN elements |-> ElementTuple(self, elements[i], atoms)]

\* A slip: the dummy fingerprints are put in front of the elements' tuples.
FillDummyInFront(fingerprint, dummy_fp, max_num_species) ==
    [i \in 1..(max_num_species - Len(fingerprint)) |-> dummy_fp] \o fingerprint

\* The loop that fills in the dummy fingerprints.
FillDummy(fingerprint, dummy_fp, max_num_species) ==
    fingerprint \o [i \in 1..(max_num_species - Len(fingerprint)) |-> dummy_fp]

\* np.array(fingerprint).flatten(): the tuples' numbers in a row.
NpFlatten(fingerprint) ==
    [i \in 1..(4 * Len(fingerprint)) |->
        fingerprint[((i - 1) \div 4) + 1][((i - 1) % 4) + 1]]

\* The part of fingerprint_doc that Inner and Outer share: the tuples of the
\* shell's elements, sorted, padded and flattened.  A shell string that is no
\* key of the element tables raises KeyError.
FingerprintShell(self, atoms, order) ==
    IF \E i \in DOMAIN atoms : atoms[i] \notin DOMAIN self.median_adsorption_energies
    THEN Raised("KeyError")
    ELSE Returned(NpFlatten(FillDummy(Sorted(ElementTuples(self, atoms, order)),
                                      self.dummy_fp, self.max_num_species)))

\* A slip: the empty coordination string is not reformatted.
BindingAtomsUnfixed(doc) == Split(doc.coordination, Dash)

\* The coordinated atoms of a record: doc['coordination'].split('-'), and no
\* atoms when the string is empty.
BindingAtoms(doc) ==
    LET binding_atoms == Split(doc.coordination, Dash)
    IN  IF binding_atoms = << <<>> >> THEN <<>> ELSE binding_atoms

\* InnerShellFingerprinter.fingerprint_doc
InnerFingerprintDoc(self, doc, order) == FingerprintShell(self, BindingAtoms(doc), order)

\* _concatenate_second_shell: the second-shell atoms of every entry of
\* doc['neighborcoord'], in a row.  An entry that does not split at ':' into
\* exactly two pieces cannot be unpacked and raises ValueError.
RECURSIVE ConcatenateSecondShell(_)
ConcatenateSecondShell(neighborcoord) ==
    IF neighborcoord = <<>> THEN Returned(<<>>)
    ELSE LET pieces == Split(neighborcoord[1], Colon)
             rest == ConcatenateSecondShell(Tail(neighborcoord))
         IN  IF Len(pieces) # 2 THEN Raised("ValueError")
             ELSE IF rest.error # "" THEN rest
             ELSE Returned(Split(pieces[2], Dash) \o rest.value)

\* OuterShellFingerprinter.fingerprint_doc
OuterFingerprintDoc(self, doc, order) ==
    LET second_shell_atoms == ConcatenateSecondShell(doc.neighborcoord)
    IN  IF second_shell_atoms.error # "" THEN second_shell_atoms
        ELSE FingerprintShell(self, second_shell_atoms.value, order)

\* A slip: the set of the shell's atoms is iterated in one order by the first
\* call and in the opposite order by a call that follows another.
ShellFingerprintDocInVaryingOrder(self, doc, order) ==
    LET varying == IF call.fn = "none" THEN order
                   ELSE [i \in DOMAIN order |-> order[Len(order) + 1 - i]]
    IN  IF self.cls = "Inner" THEN InnerFingerprintDoc(self, doc, varying)
        ELSE OuterFingerprintDoc(self, doc, varying)

\* fingerprint_doc of an Inner or Outer fingerprinter.
ShellFingerprintDoc(self, doc, order) ==
    IF self.cls = "Inner" THEN InnerFingerprintDoc(self, doc, order)
    ELSE OuterFingerprintDoc(self, doc, order)

----------------------------------------------------------------------------
\* StackedFingerprinter.

\* The first exception among the results, or "" when none raised.
RECURSIVE FirstError(_)
FirstError(results) ==
    IF results = <<>> THEN ""
    ELSE IF results[1].error # "" THEN results[1].error
    ELSE FirstError(Tail(results))

\* np.concatenate(arrays, axis=0): the arrays in a row.
RECURSIVE NpConcatenate(_)
NpConcatenate(arrays) ==
    IF arrays = <<>> THEN <<>> ELSE arrays[1] \o NpConcatenate(Tail(arrays))

\* StackedFingerprinter.__init__
Stacked(fingerprinters) == [cls |-> "Stacked", fingerprinters |-> fingerprinters]

\* A slip: the sub-fingerprinters' results are stacked last one first.
StackedInReverse(self, doc, order) ==
    LET n == Len(self.fingerprinters)
        results == [i \in 1..n |->
                       ShellFingerprintDoc(self.fingerprinters[n + 1 - i], doc, order)]
    IN  IF FirstError(results) # "" THEN Raised(FirstError(results))
        ELSE IF n = 0 THEN Raised("ValueError")
        ELSE Returned(NpConcatenate([i \in 1..n |-> results[i].value]))

\* StackedFingerprinter.fingerprint_doc: the sub-fingerprinters' results in
\* the order of self.fingerprinters; the first one to raise ends the call,
\* and np.concatenate of no arrays raises ValueError.
StackedFingerprintDoc(self, doc, order) ==
    LET results == [i \in DOMAIN self.fingerprinters |->
                       ShellFingerprintDoc(self.fingerprinters[i], doc, order)]
        tupled_fingerprint == [i \in DOMAIN results |-> results[i].value]
    IN  IF FirstError(results) # "" THEN Raised(FirstError(results))
        ELSE IF tupled_fingerprint = <<>> THEN Raised("ValueError")
        ELSE Returned(NpConcatenate(tupled_fingerprint))

\* fingerprint_doc of any fingerprinter.
FingerprintDoc(self, doc, order) ==
    IF self.cls = "Stacked" THEN StackedFingerprintDoc(self, doc, order)
    ELSE ShellFingerprintDoc(self, doc, order)

\* fingerprint_docs: the list of the records' fingerprints, in the records'
\* order; the first record whose fingerprint_doc raises ends the call.
FingerprintDocs(self, docs, order) ==
    LET results == [i \in DOMAIN docs |-> FingerprintDoc(self, docs[i], order)]
    IN  IF FirstError(results) # "" THEN Raised(FirstError(results))
        ELSE Returned([i \in DOMAIN results |-> results[i].value])

----------------------------------------------------------------------------
\* The state machine.

Classes == {"Inner", "Outer"}

\* The names the driver binds fingerprinters to: two for Inner or Outer
\* fingerprinters, one for a stacked fingerprinter.
ShellSlots == {"first", "second"}
StackedSlot == "stacked"

Init ==
    /\ cache_file = NoFile
    /\ ctor = NoCtor
    /\ mp_queries = {}
    /\ fp = [slot \in ShellSlots \cup {StackedSlot} |-> NoFp]
    /\ hashorder \in Orders({Cu, Al})
    /\ call = NoCall

Idle == ctor.pc = "idle" /\ call.fn = "none"

\* __init__ up to the point where _get_compositions_by_mpid has loaded the
\* cache and worked out which material ids it does not know.  The driver has
\* dropped the object the name was bound to, and its stacked fingerprinter.
ConstructBegin(slot, cls, adsorption_docs, catalog_docs) ==
    /\ Idle
    /\ ~LoadRaises(cache_file)
    /\ LET compositions_by_mpid == LoadedCache(cache_file)
           known_mpids == DOMAIN compositions_by_mpid
           unknown_mpids == UnknownMpids(known_mpids, adsorption_docs, catalog_docs)
       IN  ctor' = [pc |-> IF unknown_mpids = {} THEN "compute" ELSE "query",
                    slot |-> slot,
                    cls |-> cls,
                    adsorption_docs |-> adsorption_docs,
                    catalog_docs |-> catalog_docs,
                    compositions_by_mpid |-> compositions_by_mpid,
                    known_mpids |-> known_mpids,
                    unknown_mpids |-> unknown_mpids]
    /\ mp_queries' = {}
    /\ fp' = [fp EXCEPT ![slot] = NoFp, ![StackedSlot] = NoFp]
    /\ UNCHANGED <<cache_file, hashorder, call>>

\* One turn of the loop over unknown_mpids: the Materials Project answers.
QueryComposition ==
    /\ ctor.pc = "query"
    /\ \E mpid \in ctor.unknown_mpids :
        /\ mp_queries' = mp_queries \cup {mpid}
        /\ ctor' = [ctor EXCEPT
                       !.compositions_by_mpid = Put(@, mpid, MPComposition(mpid)),
                       !.unknown_mpids = @ \ {mpid}]
    /\ UNCHANGED <<cache_file, fp, hashorder, call>>

\* One turn of the loop over unknown_mpids: the query raises.
QueryRaises ==
    /\ ctor.pc = "query"
    /\ \E mpid \in ctor.unknown_mpids : mp_queries' = mp_queries \cup {mpid}
    /\ ctor' = [ctor EXCEPT !.pc = "raised"]
    /\ UNCHANGED <<cache_file, fp, hashorder, call>>

\* open(..., 'wb') after the loop: the file is created or emptied.
OpenCacheForWrite ==
    /\ ctor.pc = "query"
    /\ ctor.unknown_mpids = {}
    /\ cache_file' = Truncated
    /\ ctor' = [ctor EXCEPT !.pc = "dump"]
    /\ UNCHANGED <<mp_queries, fp, hashorder, call>>

\* pickle.dump writes the whole dictionary.
DumpCache ==
    /\ ctor.pc = "dump"
    /\ cache_file' = Pickled(ctor.compositions_by_mpid)
    /\ ctor' = [ctor EXCEPT !.pc = "compute"]
    /\ UNCHANGED <<mp_queries, fp, hashorder, call>>

\* pickle.dump raises part-way (the disk is full, say).
DumpRaises ==
    /\ ctor.pc = "dump"
    /\ ctor' = [ctor EXCEPT !.pc = "raised"]
    /\ UNCHANGED <<cache_file, mp_queries, fp, hashorder, call>>

\* The calculations of __init__: the element tables, dummy_fp and
\* max_num_species are set on the object.
ConstructFinish ==
    /\ ctor.pc = "compute"
    /\ ~MaxNumSpeciesRaises(ctor.catalog_docs)
    /\ fp' = [fp EXCEPT ![ctor.slot] =
                 Constructed(ctor.cls, ctor.adsorption_docs, ctor.catalog_docs,
                             ctor.compositions_by_mpid, hashorder)]
    /\ ctor' = [ctor EXCEPT !.pc = "done"]
    /\ UNCHANGED <<cache_file, mp_queries, hashorder, call>>

\* The end of __init__: the record lists are deleted and the object is the
\* caller's.
ConstructReturn ==
    /\ ctor.pc = "done"
    /\ ctor' = NoCtor
    /\ mp_queries' = {}
    /\ UNCHANGED <<cache_file, fp, hashorder, call>>

\* The rest of __init__ with no catalog records: max() raises.
ConstructRaises ==
    /\ ctor.pc = "compute"
    /\ MaxNumSpeciesRaises(ctor.catalog_docs)
    /\ ctor' = [ctor EXCEPT !.pc = "raised"]
    /\ UNCHANGED <<cache_file, mp_queries, fp, hashorder, call>>

\* The exception leaves __init__: no object is bound.
ConstructAbort ==
    /\ ctor.pc = "raised"
    /\ ctor' = NoCtor
    /\ mp_queries' = {}
    /\ UNCHANGED <<cache_file, fp, hashorder, call>>

\* StackedFingerprinter(*fingerprinters) of the objects bound to the slots.
StackedInit(slots) ==
    /\ Idle
    /\ \A i \in DOMAIN slots : fp[slots[i]].cls \in Classes
    /\ fp' = [fp EXCEPT ![StackedSlot] = Stacked([i \in DOMAIN slots |-> fp[slots[i]]])]
    /\ UNCHANGED <<cache_file, ctor, mp_queries, hashorder, call>>

\* A call of fingerprint_doc on the fingerprinter bound to a slot.
CallFingerprintDoc(slot, doc) ==
    /\ Idle
    /\ fp[slot].cls # "none"
    /\ call' = [fn |-> "fingerprint_doc", slot |-> slot, arg |-> doc,
                out |-> FingerprintDoc(fp[slot], doc, hashorder)]
    /\ UNCHANGED <<cache_file, ctor, mp_queries, fp, hashorder>>

\* A call of fingerprint_docs on the fingerprinter bound to a slot.
CallFingerprintDocs(slot, docs) ==
    /\ Idle
    /\ fp[slot].cls # "none"
    /\ call' = [fn |-> "fingerprint_docs", slot |-> slot, arg |-> docs,
                out |-> FingerprintDocs(fp[slot], docs, hashorder)]
    /\ UNCHANGED <<cache_file, ctor, mp_queries, fp, hashorder>>

\* The caller takes the result.
Return ==
    /\ call.fn # "none"
    /\ call' = NoCall
    /\ UNCHANGED <<cache_file, ctor, mp_queries, fp, hashorder>>

\* The records the model hands to an Inner and to an Outer fingerprinter.
InnerDocs == [coordination : Strings(MaxCoordTokens)]
OuterDocs == [neighborcoord : Lists(Strings(MaxNbrTokens), MaxNbrEntries)]
DocsFor(cls) == IF cls = "Inner" THEN InnerDocs ELSE OuterDocs

Construct ==
    \E cls \in Classes, adsorption_docs \in Lists(AdsorptionDocs, MaxAdsDocs),
       catalog_docs \in Lists(CatalogDocs, MaxCatalogDocs) :
        ConstructBegin("first", cls, adsorption_docs, catalog_docs)

Fingerprint ==
    /\ fp["first"].cls \in Classes
    /\ \E doc \in DocsFor(fp["first"].cls) : CallFingerprintDoc("first", doc)

Next ==
    \/ Construct
    \/ QueryComposition
    \/ QueryRaises
    \/ OpenCacheForWrite
    \/ DumpCache
    \/ DumpRaises
    \/ ConstructFinish
    \/ ConstructReturn
    \/ ConstructRaises
    \/ ConstructAbort
    \/ Fingerprint
    \/ Return

Spec == Init /\ [][Next]_vars

----------------------------------------------------------------------------
\* Two fingerprinters, stacked.

\* str.join
RECURSIVE Join(_, _)
Join(strings, sep) ==
    IF strings = <<>> THEN <<>>
    ELSE IF Len(strings) = 1 THEN strings[1]
    ELSE strings[1] \o <<sep>> \o Join(Tail(strings), sep)

\* The records the model hands to a stacked fingerprinter are laid out as
\* gaspy's catalog documents: the binding atoms joined by '-', and for every
\* binding atom an entry 'atom:' followed by its neighbours joined by '-'.
StackedDoc(binding_atoms, neighbours) ==
    [coordination |-> Join(binding_atoms, Dash),
     neighborcoord |-> [i \in DOMAIN binding_atoms |->
                           binding_atoms[i] \o <<Colon>> \o Join(neighbours, Dash)]]
StackedDocs ==
    {StackedDoc(binding_atoms, neighbours) :
        binding_atoms \in Lists({Cu, Al}, MaxStackedAtoms),
        neighbours \in Lists({Cu, Al}, MaxStackedAtoms)}

\* The driver binds an Inner fingerprinter to the first name and an Outer
\* fingerprinter to the second.
ClassOf(slot) == IF slot = "first" THEN "Inner" ELSE "Outer"

ConstructToStack ==
    \E slot \in ShellSlots,
       adsorption_docs \in Lists(AdsorptionDocs, MaxStackedRecords),
       catalog_docs \in Lists(CatalogDocs, MaxStackedRecords) :
        ConstructBegin(slot, ClassOf(slot), adsorption_docs, catalog_docs)

\* StackedFingerprinter(A, B)
Stack == \E slots \in [1..2 -> ShellSlots] : StackedInit(slots)

FingerprintStacked == \E doc \in StackedDocs : CallFingerprintDoc(StackedSlot, doc)

FingerprintStackedDocs ==
    \E docs \in Lists(StackedDocs, MaxDocs) : CallFingerprintDocs(StackedSlot, docs)

NextStacked ==
    \/ ConstructToStack
    \/ QueryComposition
    \/ QueryRaises
    \/ OpenCacheForWrite
    \/ DumpCache
    \/ DumpRaises
    \/ ConstructFinish
    \/ ConstructReturn
    \/ ConstructRaises
    \/ ConstructAbort
    \/ Stack
    \/ FingerprintStacked
    \/ FingerprintStackedDocs
    \/ Return

SpecStacked == Init /\ [][NextStacked]_vars

----------------------------------------------------------------------------
\* What the properties below read off a state.

\* The fingerprinter the returned call was made on.
CallSelf == fp[call.slot]

\* fingerprint_doc of an Inner or Outer fingerprinter has returned or raised.
ShellCall == call.fn = "fingerprint_doc" /\ CallSelf.cls \in Classes

\* The shell of the call's record: the list of atom strings the fingerprinter
\* extracts (no list when the extraction raises).
CallShell ==
    IF CallSelf.cls = "Inner" THEN Returned(BindingAtoms(call.arg))
    ELSE ConcatenateSecondShell(call.arg.neighborcoord)

\* The distinct elements of the call's shell.
CallElements == Range(CallShell.value)

\* A shell call returned a vector.
ShellReturned == ShellCall /\ call.out.error = ""

\* The i-th 4-tuple of a flat vector.
SlotOf(v, i) == SubSeq(v, 4 * i - 3, 4 * i)
NumSlots(v) == Len(v) \div 4

\* The tuple the documentation gives an element: its median adsorption energy,
\* atomic number, electronegativity and count in the shell.
RealTuple(self, element, atoms) ==
    <<self.median_adsorption_energies[element],
      <<Mendeleev(element).atomic_number, 1>>,
      Mendeleev(element).electronegativity,
      <<Cardinality({i \in DOMAIN atoms : atoms[i] = element}), 1>> >>

\* The running construction has set the object's attributes and still holds
\* the record lists it was given.
Done == ctor.pc = "done"
Built == fp[ctor.slot]

----------------------------------------------------------------------------
\* C1: every vector fingerprint_doc of an Inner or Outer fingerprinter
\* returns has exactly 4 * max_num_species scalars, whatever number of
\* distinct elements the record's shell holds.
C1_FixedLength ==
    ShellReturned => Len(call.out.value) = 4 * CallSelf.max_num_species

\* C2: when the shell holds more distinct elements than max_num_species,
\* fingerprint_doc raises; it returns no vector.
C2_OverflowRaises ==
    (ShellCall /\ CallShell.error = ""
        /\ Cardinality(CallElements) > CallSelf.max_num_species)
    => call.out.error # ""

\* C3: in a returned fingerprint, read as 4-tuples, the first k slots (k the
\* number of distinct elements of the shell) are tuples of elements of the
\* shell and every later slot is exactly dummy_fp: no dummy precedes a real
\* tuple.
C3_PaddingAtTail ==
    ShellReturned =>
        LET v == call.out.value
            k == Cardinality(CallElements)
        IN  /\ Len(v) = 4 * NumSlots(v)
            /\ NumSlots(v) >= k
            /\ \A i \in 1..NumSlots(v) :
                /\ i <= k => /\ \E e \in CallElements :
                                  SlotOf(v, i) = RealTuple(CallSelf, e, CallShell.value)
                             /\ SlotOf(v, i) # CallSelf.dummy_fp
                /\ i > k => SlotOf(v, i) = CallSelf.dummy_fp

\* A call returned a vector that holds a real tuple and a padding slot.
C3_Witness ==
    /\ ShellReturned
    /\ Cardinality(CallElements) >= 1
    /\ Cardinality(CallElements) < CallSelf.max_num_species
    /\ Len(call.out.value) = 4 * CallSelf.max_num_species

\* The real tuples of a returned vector are one per distinct element of the
\* shell, each with the element's count in the shell as fourth component.
OneTuplePerElement ==
    LET v == call.out.value
        k == Cardinality(CallElements)
    IN  /\ NumSlots(v) >= k
        /\ \A e \in CallElements :
               Cardinality({i \in 1..k :
                   SlotOf(v, i) = RealTuple(CallSelf, e, CallShell.value)}) = 1

\* Each of the first k slots has a median energy at most that of the next.
EnergiesAscend ==
    LET v == call.out.value
        k == Cardinality(CallElements)
    IN  \A i \in 1..(k - 1) : FLeq(SlotOf(v, i)[1], SlotOf(v, i + 1)[1])

\* No slot's median energy is less than that of the slot before it.
EnergiesNeverDecrease ==
    LET v == call.out.value
        k == Cardinality(CallElements)
    IN  \A i \in 1..(k - 1) : ~FLess(SlotOf(v, i + 1)[1], SlotOf(v, i)[1])

\* C4: in every returned fingerprint the real tuples are one per distinct
\* element of the shell, each with the element's count, and their median
\* energies never decrease from one tuple to the next: each is less than or
\* equal to the next when the energies are numbers, and none is less than the
\* one before it when they are NaN (a fingerprinter constructed from no
\* adsorption record).
C4_SortedByEnergy ==
    ShellReturned =>
        /\ OneTuplePerElement
        /\ EnergiesNeverDecrease
        /\ (\A e \in CallElements :
                ~IsNaN(CallSelf.median_adsorption_energies[e])) => EnergiesAscend

\* A call returned the tuples of two elements with different median energies,
\* whose set the interpreter iterates with the greater energy first.
C4_Witness ==
    /\ ShellReturned
    /\ CallElements = {Cu, Al}
    /\ LET m == CallSelf.median_adsorption_energies
       IN  FLess(m[hashorder[2]], m[hashorder[1]])

\* The energies of the adsorption records on a material made of exactly one
\* element, and of all adsorption records.
EnergiesOn(element, docs) ==
    LET on == SelectSeq(docs, LAMBDA doc : MPComposition(doc.mpid) = <<element>>)
    IN  [i \in DOMAIN on |-> on[i].energy]
EnergiesOfAll(docs) == [i \in DOMAIN docs |-> docs[i].energy]

\* C5: when the adsorption record set is not empty, an element with no
\* adsorption record on its monometallic gets the median of the energies of
\* all adsorption records; an element with such records gets the median of
\* their energies only.
C5_MedianOrFallback ==
    Done =>
        \A e \in Built.elements :
            LET own == EnergiesOn(e, ctor.adsorption_docs)
                median == Built.median_adsorption_energies[e]
            IN  /\ (own = <<>> /\ ctor.adsorption_docs # <<>>) =>
                       /\ median = NpMedian(EnergiesOfAll(ctor.adsorption_docs))
                       /\ ~IsNaN(median)
                /\ own # <<>> => median = NpMedian(own)

\* A construction gave one element the fallback and another element a median
\* of its own that differs from it.
C5_Witness ==
    /\ Done
    /\ \E e, f \in Built.elements :
        /\ EnergiesOn(e, ctor.adsorption_docs) = <<>>
        /\ EnergiesOn(f, ctor.adsorption_docs) # <<>>
        /\ Built.median_adsorption_energies[e] # Built.median_adsorption_energies[f]
        /\ ~IsNaN(Built.median_adsorption_energies[e])

\* C6: when the calculations of a construction are complete, every element of
\* the composition of every catalog record's material has an entry in
\* median_adsorption_energies and in mendeleev_data.
C6_CatalogElementsHaveEntries ==
    Done =>
        \A i \in DOMAIN ctor.catalog_docs :
            \A e \in Range(MPComposition(ctor.catalog_docs[i].mpid)) :
                /\ e \in DOMAIN Built.median_adsorption_energies
                /\ e \in DOMAIN Built.mendeleev_data

\* A construction has completed whose catalog holds the two-element material,
\* which no adsorption record is on.
C6_Witness ==
    /\ Done
    /\ \E i \in DOMAIN ctor.catalog_docs : ctor.catalog_docs[i].mpid = "mp-985806"
    /\ \A i \in DOMAIN ctor.adsorption_docs : ctor.adsorption_docs[i].mpid # "mp-985806"
    /\ {Cu, Al} \subseteq DOMAIN Built.median_adsorption_energies

\* C7: at every point during and after a construction the persisted cache is
\* loadable and holds the mapping persisted before the construction or that
\* mapping extended by every required id: it is never empty, truncated or
\* partially extended.
C7_CacheNeverPartial ==
    /\ cache_file.state # "truncated"
    /\ ctor.pc # "idle" =>
        LET required == RequiredMpids(ctor.adsorption_docs, ctor.catalog_docs)
            persisted == DOMAIN LoadedCache(cache_file)
        IN  /\ persisted \in {ctor.known_mpids, ctor.known_mpids \cup required}
            /\ \A mpid \in persisted : cache_file.data[mpid] = MPComposition(mpid)

\* C8: a material id in the loaded cache is never asked of the Materials
\* Project and its element list never changes, in the dictionary of the
\* running construction and in the file it writes; the ids asked are required
\* ids that the loaded cache does not hold.
C8_KnownIdsUntouched ==
    [][/\ ctor.pc = "idle" /\ ctor'.pc # "idle" =>
            /\ ctor'.known_mpids = DOMAIN LoadedCache(cache_file)
            /\ ctor'.compositions_by_mpid = LoadedCache(cache_file)
       /\ ctor.pc # "idle" /\ ctor'.pc # "idle" =>
            /\ ctor'.known_mpids = ctor.known_mpids
            /\ \A mpid \in ctor.known_mpids :
                   ctor'.compositions_by_mpid[mpid] = ctor.compositions_by_mpid[mpid]
            /\ (mp_queries' \ mp_queries) \cap ctor.known_mpids = {}
            /\ (mp_queries' \ mp_queries) \subseteq
                   RequiredMpids(ctor.adsorption_docs, ctor.catalog_docs)
       /\ cache_file'.state = "pickled" /\ cache_file' # cache_file =>
            \A mpid \in ctor.known_mpids :
                /\ mpid \in DOMAIN cache_file'.data
                /\ cache_file'.data[mpid] = ctor.compositions_by_mpid[mpid]
      ]_vars

\* A construction that loaded a cache with entries has asked for an id.
C8_Witness ==
    /\ ctor.pc \in {"query", "dump", "compute", "done"}
    /\ ctor.known_mpids # {}
    /\ mp_queries # {}

\* C10: fingerprint_doc of an Inner fingerprinter on a record whose
\* coordination string is empty raises nothing and returns max_num_species
\* slots, each exactly dummy_fp, whose fourth component is 0.
C10_EmptyCoordinationAllDummy ==
    (call.fn = "fingerprint_doc" /\ CallSelf.cls = "Inner"
        /\ call.arg.coordination = <<>>)
    => /\ call.out.error = ""
       /\ Len(call.out.value) = 4 * CallSelf.max_num_species
       /\ \A i \in 1..CallSelf.max_num_species :
              SlotOf(call.out.value, i) = CallSelf.dummy_fp
       /\ CallSelf.dummy_fp[4] = <<0, 1>>

\* An Inner fingerprinter of two slots has fingerprinted the empty
\* coordination string.
C10_Witness ==
    /\ call.fn = "fingerprint_doc"
    /\ CallSelf.cls = "Inner"
    /\ call.arg.coordination = <<>>
    /\ CallSelf.max_num_species = 2
    /\ call.out.error = ""

\* What the two sub-fingerprinters of the stacked fingerprinter a call was
\* made on return for a record, each on its own.
SubFingerprint(i, doc) ==
    ShellFingerprintDoc(CallSelf.fingerprinters[i], doc, hashorder)
BothReturn(doc) ==
    SubFingerprint(1, doc).error = "" /\ SubFingerprint(2, doc).error = ""

\* C9: fingerprint_doc of StackedFingerprinter(A, B) returns A's fingerprint
\* of the record followed by B's, its length the sum of their lengths, and
\* fingerprint_docs returns that for each record, in the records' order.
C9_StackedIsConcatenation ==
    (call.fn # "none" /\ CallSelf.cls = "Stacked") =>
        /\ call.fn = "fingerprint_doc" /\ BothReturn(call.arg) =>
            /\ call.out.error = ""
            /\ call.out.value =
                   SubFingerprint(1, call.arg).value \o SubFingerprint(2, call.arg).value
            /\ Len(call.out.value) =
                   Len(SubFingerprint(1, call.arg).value)
                       + Len(SubFingerprint(2, call.arg).value)
        /\ (call.fn = "fingerprint_docs"
                /\ \A i \in DOMAIN call.arg : BothReturn(call.arg[i])) =>
            /\ call.out.error = ""
            /\ Len(call.out.value) = Len(call.arg)
            /\ \A i \in DOMAIN call.arg :
                   call.out.value[i] =
                       SubFingerprint(1, call.arg[i]).value
                           \o SubFingerprint(2, call.arg[i]).value

\* fingerprint_docs of a stack of an Inner and an Outer fingerprinter of
\* different widths has returned the fingerprints of two records, which
\* differ, and the two halves of the first differ.
C9_Witness ==
    /\ call.fn = "fingerprint_docs"
    /\ CallSelf.cls = "Stacked"
    /\ call.out.error = ""
    /\ Len(call.arg) = 2
    /\ CallSelf.fingerprinters[1].cls # CallSelf.fingerprinters[2].cls
    /\ CallSelf.fingerprinters[1].max_num_species
           # CallSelf.fingerprinters[2].max_num_species
    /\ call.out.value[1] # call.out.value[2]
    /\ SubFingerprint(1, call.arg[1]).value # SubFingerprint(2, call.arg[1]).value

----------------------------------------------------------------------------
\* The second-shell segment of a neighborcoord entry: what follows its ':'.
SecondShellSegment(entry) == SubSeq(entry, FirstSep(entry, Colon) + 1, Len(entry))

\* A segment in the documented form 'Cu-Cu-Al': element symbols with one '-'
\* between neighbours, or nothing at all.
IsElementList(segment) ==
    \/ segment = <<>>
    \/ /\ Len(segment) % 2 = 1
       /\ \A i \in DOMAIN segment :
              IF i % 2 = 1 THEN segment[i] \in ElementTokens ELSE segment[i] = Dash

\* An entry in the documented form: one ':' and an element list after it.
IsNeighborCoordination(entry) ==
    /\ Cardinality({i \in DOMAIN entry : entry[i] = Colon}) = 1
    /\ IsElementList(SecondShellSegment(entry))

\* How often an element occurs in the second-shell segments of the entries,
\* all entries taken together.
RECURSIVE OccurrencesInSegments(_, _)
OccurrencesInSegments(neighborcoord, element) ==
    IF neighborcoord = <<>> THEN 0
    ELSE LET segment == SecondShellSegment(neighborcoord[1])
         IN  Cardinality({i \in DOMAIN segment : <<segment[i]>> = element})
                 + OccurrencesInSegments(Tail(neighborcoord), element)

\* C11: for a record whose neighborcoord entries are in the documented form,
\* _concatenate_second_shell returns a list that holds element symbols only,
\* each as often as it occurs in the second-shell segments of all entries
\* together; the binding element before the ':' is not in it.
C11_SecondShellOccurrences ==
    (call.fn = "fingerprint_doc" /\ CallSelf.cls = "Outer"
        /\ \A i \in DOMAIN call.arg.neighborcoord :
               IsNeighborCoordination(call.arg.neighborcoord[i]))
    => LET second_shell_atoms == ConcatenateSecondShell(call.arg.neighborcoord)
       IN  /\ second_shell_atoms.error = ""
           /\ \A i \in DOMAIN second_shell_atoms.value :
                  second_shell_atoms.value[i] \in {Cu, Al}
           /\ \A element \in {Cu, Al} :
                  Count(second_shell_atoms.value, element)
                      = OccurrencesInSegments(call.arg.neighborcoord, element)

----------------------------------------------------------------------------
\* One fingerprinter, called again and again.

\* The results the caller has kept of the calls before the current one, each
\* with the record it was made for, oldest first.
Earlier(c) == IF "earlier" \in DOMAIN c THEN c.earlier ELSE <<>>

\* The caller keeps the result of the call, returned or raised, and calls
\* fingerprint_doc of the same fingerprinter again.
CallFingerprintDocAfter(doc) ==
    /\ ctor.pc = "idle"
    /\ call.fn = "fingerprint_doc"
    /\ Len(Earlier(call)) < MaxEarlierCalls
    /\ call' = [fn |-> "fingerprint_doc", slot |-> call.slot, arg |-> doc,
                out |-> FingerprintDoc(fp[call.slot], doc, hashorder),
                earlier |-> Append(Earlier(call), [arg |-> call.arg, out |-> call.out])]
    /\ UNCHANGED <<cache_file, ctor, mp_queries, fp, hashorder>>

\* The records handed to a fingerprinter that is called repeatedly: of no
\* atoms, of two elements in either order, and malformed ones ('CuAl' is no
\* element, 'Cu-Al' has no ':').
RepeatedDocs(cls) ==
    IF cls = "Inner"
    THEN {[coordination |-> coordination] :
              coordination \in {<<>>, <<"Cu", Dash, "Al">>, <<"Al", Dash, "Cu">>,
                                <<"Cu", "Al">>}}
    ELSE {[neighborcoord |-> <<entry>>] :
              entry \in {<<Colon>>, <<Colon, "Cu", Dash, "Al">>,
                         <<Colon, "Al", Dash, "Cu">>, <<"Cu", Dash, "Al">>}}

ConstructToRepeat ==
    \E cls \in Classes,
       adsorption_docs \in Lists(AdsorptionDocs, MaxStackedRecords),
       catalog_docs \in Lists(CatalogDocs, MaxStackedRecords) :
        ConstructBegin("first", cls, adsorption_docs, catalog_docs)

FingerprintFirst ==
    /\ fp["first"].cls \in Classes
    /\ \E doc \in RepeatedDocs(fp["first"].cls) : CallFingerprintDoc("first", doc)

FingerprintAgain ==
    /\ call.fn # "none"
    /\ \E doc \in RepeatedDocs(fp[call.slot].cls) : CallFingerprintDocAfter(doc)

NextAgain ==
    \/ ConstructToRepeat
    \/ QueryComposition
    \/ QueryRaises
    \/ OpenCacheForWrite
    \/ DumpCache
    \/ DumpRaises
    \/ ConstructFinish
    \/ ConstructReturn
    \/ ConstructRaises
    \/ ConstructAbort
    \/ FingerprintFirst
    \/ FingerprintAgain
    \/ Return

SpecAgain == Init /\ [][NextAgain]_vars

\* C12: a step that makes a call of fingerprint_doc or takes its result,
\* returned or raised, leaves every fingerprinter's attributes
\* (median_adsorption_energies, mendeleev_data, dummy_fp, max_num_species,
\* compositions_by_mpid), the persisted cache and the queries made unchanged,
\* and a call for a record that an earlier call on the same fingerprinter was
\* made for has the result of that call, whatever was fingerprinted in
\* between.
C12_FingerprintingChangesNothing ==
    [][/\ call' # call =>
            /\ fp' = fp
            /\ cache_file' = cache_file
            /\ mp_queries' = mp_queries
            /\ ctor' = ctor
       /\ call'.fn = "fingerprint_doc" =>
            \A k \in DOMAIN Earlier(call') :
                Earlier(call')[k].arg = call'.arg => Earlier(call')[k].out = call'.out
      ]_vars

\* A fingerprinter whose median energies are all NaN returned the tuples of
\* two elements, then raised on a malformed record, then was given the first
\* record again and returned.
C12_Witness ==
    /\ call.fn = "fingerprint_doc"
    /\ Len(Earlier(call)) = 2
    /\ call.out.error = ""
    /\ Earlier(call)[1].arg = call.arg
    /\ Earlier(call)[1].out.error = ""
    /\ Earlier(call)[2].arg # call.arg
    /\ Earlier(call)[2].out.error # ""
    /\ CallElements = {Cu, Al}
    /\ \A e \in CallElements : IsNaN(CallSelf.median_adsorption_energies[e])

====
